---- MODULE Spec2Model ----
(***************************************************************************)
(* Model of src/components/Line.js: the Line component (its two pieces of  *)
(* local state, its effects and its render output) and the pure helpers    *)
(* abbreviateStationName, sortTrainRoutePairsByDistance and                *)
(* findClosestStationToTop.                                                *)
(*                                                                         *)
(* Encodings.  A JS value that may be null/undefined is a sequence of      *)
(* length 0 (Null) or 1 (Some(v)).  A string that the code edits is a      *)
(* sequence of one-character strings.  A JS object used as a mapping is    *)
(* the sequence of its entries in Object.entries order (insertion order    *)
(* for the non-numeric station ids used here).  A style object is the set  *)
(* of its properties.                                                      *)
(***************************************************************************)
EXTENDS Integers, Sequences, FiniteSets

VARIABLES
    lineName,                \* props.line.name
    stationPositions,        \* prerenderLine(...).stationPositions
    pairsProp,               \* the pairs getTrainRoutePairsForLine yields for the current props
    trainRoutePairs,         \* the array held by the last render (argument of the sort)
    lineOffset,              \* useState(null)
    shouldFocusOnFirstTrain, \* useState(true)
    firstStationRef,         \* useRef(null).current
    hasTrainsDep,            \* the [hasTrains] dependency of the last committed render
    mounted,                 \* the first render of this mount has been committed
    needsRender,             \* a render is scheduled (props or state changed)
    layoutPending,           \* the mount's layout effect has not run yet
    effectPending,           \* the passive effect on [hasTrains] has not run yet
    out,                     \* the element tree returned by the last render
    prevKind,                \* history: kind of the render before the last one
    mountKind,               \* history: kind of the first render of this mount
    arg0,                    \* helper call: the argument as passed
    arg,                     \* helper call: the caller's argument object after the call
    ret,                     \* helper call: the returned value(s)
    called                   \* helper call: the call has returned

lineVars == <<lineName, pairsProp, trainRoutePairs, lineOffset,
              shouldFocusOnFirstTrain, firstStationRef, hasTrainsDep, mounted,
              needsRender, layoutPending, effectPending, out, prevKind, mountKind>>
callVars == <<arg0, arg, ret, called>>
vars == <<lineVars, stationPositions, callVars>>

----------------------------------------------------------------------------
(* Bounds of the model *)

\* trains of a line in the component model
MaxTrains == 2
\* length of the pair array in the model of the sort alone
MaxLen == 3
\* entries of a stationPositions mapping in the model of the closest-station scan
MaxStations == 3
\* fragments a station name is put together from
MaxParts == 2
\* successive applications of abbreviateStationName
MaxApplications == 2

----------------------------------------------------------------------------
(* Values *)

Null == <<>>
Some(v) == <<v>>

Range(s) == {s[i] : i \in 1..Len(s)}

SeqsUpTo(S, n) == UNION {[1..k -> S] : k \in 0..n}

\* station geometry: points whose distance from the origin is an integer, so that
\* Math.sqrt is exact; (3,4), (4,3) and (0,5) tie at 5, (0,0) ties with "unknown"
Points == {[x |-> 0, y |-> 0], [x |-> 3, y |-> 4], [x |-> 4, y |-> 3],
           [x |-> 0, y |-> 5], [x |-> 6, y |-> 8]}

\* the ids a mapping may use, in a fixed order
StationIdList == <<"a", "b", "c", "d", "e", "f">>

StationIds == {StationIdList[i] : i \in 1..MaxStations}

\* a station id no mapping holds
UnknownStation == "x"

\* Math.sqrt on the perfect squares the points above produce
Sqrt(n) == CHOOSE r \in 0..n : r * r = n

\* stationPositions[id]: the position, or undefined
Lookup(positions, id) ==
    IF \E i \in 1..Len(positions) : positions[i].id = id
    THEN Some(positions[CHOOSE i \in 1..Len(positions) : positions[i].id = id].pos)
    ELSE Null

----------------------------------------------------------------------------
(* abbreviateStationName *)

BostonCollege == <<"B", "o", "s", "t", "o", "n", " ", "C", "o", "l", "l", "e", "g", "e">>
BC == <<"B", ".", "C", ".">>
HynesConventionCenter ==
    <<"H", "y", "n", "e", "s", " ", "C", "o", "n", "v", "e", "n", "t", "i", "o", "n",
      " ", "C", "e", "n", "t", "e", "r">>
Hynes == <<"H", "y", "n", "e", "s">>
HeathStreet == <<"H", "e", "a", "t", "h", " ", "S", "t", "r", "e", "e", "t">>
Heath == <<"H", "e", "a", "t", "h">>

\* whether pat occurs in s at index i
OccursAt(s, pat, i) ==
    /\ i >= 1
    /\ i + Len(pat) - 1 <= Len(s)
    /\ SubSeq(s, i, i + Len(pat) - 1) = pat

Contains(s, pat) == \E i \in 1..Len(s) : OccursAt(s, pat, i)

\* String.prototype.replace with a string pattern: only the first occurrence is
\* replaced; a string without the pattern is returned as it is
StringReplace(s, pat, rep) ==
    IF Contains(s, pat)
    THEN LET i == CHOOSE k \in 1..Len(s) :
                      /\ OccursAt(s, pat, k)
                      /\ \A j \in 1..(k - 1) : ~OccursAt(s, pat, j)
         IN  SubSeq(s, 1, i - 1) \o rep \o SubSeq(s, i + Len(pat), Len(s))
    ELSE s

\* a table whose third entry is " Street" -> "" instead of "Heath Street" -> "Heath"
abbreviateStationName_streetEntry(station) ==
    StringReplace(
        StringReplace(StringReplace(station, BostonCollege, BC),
                      HynesConventionCenter, Hynes),
        <<" ", "S", "t", "r", "e", "e", "t">>, <<>>)

abbreviateStationName(station) ==
    StringReplace(
        StringReplace(StringReplace(station, BostonCollege, BC),
                      HynesConventionCenter, Hynes),
        HeathStreet, Heath)

----------------------------------------------------------------------------
(* sortTrainRoutePairsByDistance *)

Pair(label, stationId) ==
    [train |-> [label |-> label, stationId |-> stationId], route |-> "route"]

\* the distance the map callback computes for one pair
PairDistance(pair, positions) ==
    LET station == Lookup(positions, pair.train.stationId)
    IN  IF station # Null
        THEN Sqrt(station[1].x * station[1].x + station[1].y * station[1].y)
        ELSE 0

\* new Map(pairs.map(...))
distanceMap(pairs, positions) ==
    [pair \in Range(pairs) |-> PairDistance(pair, positions)]

\* the comparator handed to sort
compareByDistance(a, b, dm) == dm[a] - dm[b]

\* insertion that puts an element before the elements it compares equal to
InsertSorted_beforeEqual(sorted, e, dm) ==
    LET k == Cardinality({i \in 1..Len(sorted) : compareByDistance(sorted[i], e, dm) < 0})
    IN  SubSeq(sorted, 1, k) \o <<e>> \o SubSeq(sorted, k + 1, Len(sorted))

\* one step of a stable sort: e goes after every element that does not compare
\* greater than it
InsertSorted(sorted, e, dm) ==
    LET k == Cardinality({i \in 1..Len(sorted) : compareByDistance(sorted[i], e, dm) <= 0})
    IN  SubSeq(sorted, 1, k) \o <<e>> \o SubSeq(sorted, k + 1, Len(sorted))

RECURSIVE ArraySort(_, _)
\* Array.prototype.sort with compareByDistance: the contents of the array after the
\* call (the sort is stable, ECMAScript 2019 section 22.1.3.27)
ArraySort(arr, dm) ==
    IF arr = <<>>
    THEN <<>>
    ELSE InsertSorted(ArraySort(SubSeq(arr, 1, Len(arr) - 1), dm), arr[Len(arr)], dm)

\* the value returned: pairs.sort(...) returns the array it was called on
sortTrainRoutePairsByDistance(pairs, positions) ==
    ArraySort(pairs, distanceMap(pairs, positions))

----------------------------------------------------------------------------
(* findClosestStationToTop *)

PointDistance(pos) == Sqrt(pos.x * pos.x + pos.y * pos.y)

\* nextDistance < shortestDistance, where Null stands for Infinity
CloserThan(nextDistance, shortestDistance) ==
    \/ shortestDistance = Null
    \/ /\ shortestDistance # Null
       /\ nextDistance < shortestDistance[1]

\* a reducer that also takes an entry at the same distance
closestReducer_orEqual(acc, entry) ==
    IF \/ acc.shortestDistance = Null
       \/ /\ acc.shortestDistance # Null
          /\ PointDistance(entry.pos) <= acc.shortestDistance[1]
    THEN [closestId |-> Some(entry.id), shortestDistance |-> Some(PointDistance(entry.pos))]
    ELSE acc

\* the reducer callback
closestReducer(acc, entry) ==
    IF CloserThan(PointDistance(entry.pos), acc.shortestDistance)
    THEN [closestId |-> Some(entry.id), shortestDistance |-> Some(PointDistance(entry.pos))]
    ELSE acc

RECURSIVE ReduceEntries(_, _)
\* Object.entries(stationPositions).reduce(closestReducer, acc)
ReduceEntries(entries, acc) ==
    IF entries = <<>>
    THEN acc
    ELSE ReduceEntries(Tail(entries), closestReducer(acc, Head(entries)))

findClosestStationToTop(positions) ==
    ReduceEntries(positions, [closestId |-> Null, shortestDistance |-> Null]).closestId

----------------------------------------------------------------------------
(* Line: render *)

\* the text of the empty notice
emptyNotice_lowerCaseRed(name) ==
    IF name = "red"
    THEN <<"New Red Line trains are expected later in 2020.">>
    ELSE <<"No new trains on the ", name, " Line right now.">>

emptyNotice(name) ==
    IF name = "Red"
    THEN <<"New Red Line trains are expected later in 2020.">>
    ELSE <<"No new trains on the ", name, " Line right now.">>

renderContainerStyles(offset) ==
    IF offset # Null
    THEN {[name |-> "transform",
           value |-> <<"translateX(calc(", 0 - offset[1], "px + 40vw))">>]}
    ELSE {}

\* one <g> per entry of stationPositions; the closest one carries firstStationRef
renderStations(positions) ==
    LET closestId == findClosestStationToTop(positions)
    IN  [i \in 1..Len(positions) |->
            [key |-> positions[i].id,
             pos |-> positions[i].pos,
             ref |-> Some(positions[i].id) = closestId]]

\* the focusOnMount prop of the train at (0-based) index
focusOnMount_everyTrain(flag, index) == flag

focusOnMount(flag, index) == flag /\ index = 0

\* one <Train> per element of the sorted array
renderTrains(sorted, flag) ==
    [i \in 1..Len(sorted) |->
        [focusOnMount |-> focusOnMount(flag, i - 1),
         key |-> sorted[i].train.label,
         train |-> sorted[i].train,
         route |-> sorted[i].route]]

NoOutput ==
    [kind |-> "none", text |-> <<>>, containerStyles |-> {}, stations |-> <<>>,
     trains |-> <<>>, shouldFocusOnFirstTrain |-> TRUE]

\* the early return of the component
renderEmpty(name, flag) ==
    [kind |-> "empty", text |-> emptyNotice(name), containerStyles |-> {},
     stations |-> <<>>, trains |-> <<>>, shouldFocusOnFirstTrain |-> flag]

\* the svg scene
renderScene(sorted, positions, offset, flag) ==
    [kind |-> "svg", text |-> <<>>, containerStyles |-> renderContainerStyles(offset),
     stations |-> renderStations(positions), trains |-> renderTrains(sorted, flag),
     shouldFocusOnFirstTrain |-> flag]

\* the element firstStationRef points to once the scene is committed
committedRef(positions) == findClosestStationToTop(positions)

\* a layout effect that runs after every render (no dependency array)
layoutEffectDue_everyRender(isMounted) == TRUE

\* useLayoutEffect(..., []): due after the first render of a mount only
layoutEffectDue(isMounted) == ~isMounted

\* an effect without its dependency: due after the first render only
passiveEffectDue_mountOnly(isMounted, hasTrains, dep) == ~isMounted

\* useEffect(..., [hasTrains]): due after the first render and when hasTrains changed
passiveEffectDue(isMounted, hasTrains, dep) == ~isMounted \/ hasTrains # dep

\* a setter call that passes hasTrains itself
nextShouldFocus_notNegated(hasTrains) == hasTrains

\* the value the effect hands to setShouldFocusOnFirstTrain
nextShouldFocus(hasTrains) == ~hasTrains

----------------------------------------------------------------------------
(* Line: inputs *)

LineNames == {"Red", "Green"}

\* x of getBoundingClientRect()
ClientXs == {0, 25}

\* the station geometry of the line: "b" and "c" tie for the closest to the origin
LinePositions ==
    <<[id |-> "a", pos |-> [x |-> 6, y |-> 8]],
      [id |-> "b", pos |-> [x |-> 3, y |-> 4]],
      [id |-> "c", pos |-> [x |-> 4, y |-> 3]]>>

\* where a train may be: at a station of the line, or at one the line does not hold
TrainStations == {"a", UnknownStation}

\* the pairs of a line: some of the trains 1..MaxTrains, each at some station
PairInputs ==
    {s \in SeqsUpTo({Pair(l, st) : l \in 1..MaxTrains, st \in TrainStations}, MaxTrains) :
        \A i, j \in 1..Len(s) : i < j => s[i].train.label < s[j].train.label}

----------------------------------------------------------------------------
(* Line: the component *)

CallIdle ==
    /\ arg0 = <<>>
    /\ arg = <<>>
    /\ ret = <<>>
    /\ called = FALSE

Init ==
    /\ lineName \in LineNames
    /\ stationPositions = LinePositions
    /\ pairsProp \in PairInputs
    /\ trainRoutePairs = <<>>
    /\ lineOffset = Null
    /\ shouldFocusOnFirstTrain = TRUE
    /\ firstStationRef = Null
    /\ hasTrainsDep = FALSE
    /\ mounted = FALSE
    /\ needsRender = TRUE
    /\ layoutPending = FALSE
    /\ effectPending = FALSE
    /\ out = NoOutput
    /\ prevKind = "none"
    /\ mountKind = "none"
    /\ CallIdle

\* one call of the component function and the commit of what it returns; React
\* runs the pending effects of the previous commit before it renders again
Render ==
    /\ needsRender
    /\ ~layoutPending
    /\ ~effectPending
    /\ LET hasTrains == Len(pairsProp) > 0
           sorted == sortTrainRoutePairsByDistance(pairsProp, stationPositions)
       IN  /\ IF Len(pairsProp) = 0
              THEN /\ out' = renderEmpty(lineName, shouldFocusOnFirstTrain)
                   /\ trainRoutePairs' = pairsProp
                   /\ firstStationRef' = Null
              ELSE /\ out' = renderScene(sorted, stationPositions, lineOffset,
                                         shouldFocusOnFirstTrain)
                   /\ trainRoutePairs' = sorted
                   /\ firstStationRef' = committedRef(stationPositions)
           /\ layoutPending' = layoutEffectDue(mounted)
           /\ effectPending' = passiveEffectDue(mounted, hasTrains, hasTrainsDep)
           /\ hasTrainsDep' = hasTrains
    /\ prevKind' = out.kind
    /\ mountKind' = IF mounted THEN mountKind ELSE out'.kind
    /\ mounted' = TRUE
    /\ needsRender' = FALSE
    /\ UNCHANGED <<lineName, stationPositions, pairsProp, lineOffset,
                   shouldFocusOnFirstTrain, callVars>>

\* the useLayoutEffect callback, run synchronously in the commit
LayoutEffect ==
    /\ layoutPending
    /\ layoutPending' = FALSE
    /\ IF firstStationRef # Null
       THEN \E x \in ClientXs :
               /\ lineOffset' = Some(x)
               /\ needsRender' = (needsRender \/ lineOffset # Some(x))
       ELSE UNCHANGED <<lineOffset, needsRender>>
    /\ UNCHANGED <<lineName, stationPositions, pairsProp, trainRoutePairs,
                   shouldFocusOnFirstTrain, firstStationRef, hasTrainsDep, mounted,
                   effectPending, out, prevKind, mountKind, callVars>>

\* the useEffect callback
PassiveEffect ==
    /\ effectPending
    /\ ~layoutPending
    /\ effectPending' = FALSE
    /\ shouldFocusOnFirstTrain' = nextShouldFocus(hasTrainsDep)
    /\ needsRender' = (needsRender \/ shouldFocusOnFirstTrain # nextShouldFocus(hasTrainsDep))
    /\ UNCHANGED <<lineName, stationPositions, pairsProp, trainRoutePairs, lineOffset,
                   firstStationRef, hasTrainsDep, mounted, layoutPending, out,
                   prevKind, mountKind, callVars>>

\* the parent renders Line again with the trains the feed now reports
SetProps ==
    /\ mounted
    /\ ~layoutPending
    /\ \E p \in PairInputs : pairsProp' = p
    /\ needsRender' = TRUE
    /\ UNCHANGED <<lineName, stationPositions, trainRoutePairs, lineOffset,
                   shouldFocusOnFirstTrain, firstStationRef, hasTrainsDep, mounted,
                   layoutPending, effectPending, out, prevKind, mountKind, callVars>>

\* the component is unmounted and a new instance is mounted with the current props:
\* the hooks start over
Remount ==
    /\ mounted
    /\ ~layoutPending
    /\ trainRoutePairs' = <<>>
    /\ lineOffset' = Null
    /\ shouldFocusOnFirstTrain' = TRUE
    /\ firstStationRef' = Null
    /\ hasTrainsDep' = FALSE
    /\ mounted' = FALSE
    /\ needsRender' = TRUE
    /\ layoutPending' = FALSE
    /\ effectPending' = FALSE
    /\ out' = NoOutput
    /\ prevKind' = "none"
    /\ mountKind' = "none"
    /\ UNCHANGED <<lineName, stationPositions, pairsProp, callVars>>

Next == Render \/ LayoutEffect \/ PassiveEffect \/ SetProps \/ Remount

Spec == Init /\ [][Next]_vars

----------------------------------------------------------------------------
(* The helpers called on their own *)

LineIdle ==
    /\ lineName = "Green"
    /\ pairsProp = <<>>
    /\ trainRoutePairs = <<>>
    /\ lineOffset = Null
    /\ shouldFocusOnFirstTrain = TRUE
    /\ firstStationRef = Null
    /\ hasTrainsDep = FALSE
    /\ mounted = FALSE
    /\ needsRender = FALSE
    /\ layoutPending = FALSE
    /\ effectPending = FALSE
    /\ out = NoOutput
    /\ prevKind = "none"
    /\ mountKind = "none"

\* arrays of up to MaxLen pairs with distinct trains, in any order
SortInputs ==
    {s \in SeqsUpTo({Pair(l, st) : l \in 1..MaxLen,
                                   st \in StationIds \cup {UnknownStation}}, MaxLen) :
        \A i, j \in 1..Len(s) : i # j => s[i].train.label # s[j].train.label}

SortPositions ==
    {<<[id |-> "a", pos |-> [x |-> 3, y |-> 4]],
       [id |-> "b", pos |-> [x |-> 4, y |-> 3]],
       [id |-> "c", pos |-> [x |-> 6, y |-> 8]]>>,
     <<[id |-> "b", pos |-> [x |-> 0, y |-> 0]],
       [id |-> "c", pos |-> [x |-> 0, y |-> 5]]>>}

InitSort ==
    /\ LineIdle
    /\ stationPositions \in SortPositions
    /\ arg0 \in SortInputs
    /\ arg = arg0
    /\ ret = <<>>
    /\ called = FALSE

\* sortTrainRoutePairsByDistance(arg, stationPositions): Array.prototype.sort sorts
\* the array it is called on and returns that same array
CallSort ==
    /\ ~called
    /\ arg' = sortTrainRoutePairsByDistance(arg, stationPositions)
    /\ ret' = arg'
    /\ called' = TRUE
    /\ UNCHANGED <<lineVars, stationPositions, arg0>>

NextSort == CallSort

SpecSort == InitSort /\ [][NextSort]_vars

\* mappings of up to MaxStations entries with distinct ids, in any insertion order
PositionInputs ==
    {s \in SeqsUpTo([id : StationIds, pos : Points], MaxStations) :
        \A i, j \in 1..Len(s) : i # j => s[i].id # s[j].id}

InitClosest ==
    /\ LineIdle
    /\ stationPositions \in PositionInputs
    /\ arg0 = stationPositions
    /\ arg = arg0
    /\ ret = <<>>
    /\ called = FALSE

\* findClosestStationToTop(stationPositions)
CallClosest ==
    /\ ~called
    /\ ret' = findClosestStationToTop(arg)
    /\ called' = TRUE
    /\ UNCHANGED <<lineVars, stationPositions, arg0, arg>>

NextClosest == CallClosest

SpecClosest == InitClosest /\ [][NextClosest]_vars

NameFragments ==
    {BostonCollege, HynesConventionCenter, HeathStreet,
     <<" ", "C", "o", "n", "v", "e", "n", "t", "i", "o", "n", " ", "C", "e", "n", "t", "e", "r">>,
     <<" ", "S", "t", "r", "e", "e", "t">>,
     <<"K", "e", "n", "m", "o", "r", "e">>,
     <<"B", "o", "s", "t", "o", "n">>}

RECURSIVE Concat(_)
Concat(parts) == IF parts = <<>> THEN <<>> ELSE Head(parts) \o Concat(Tail(parts))

\* station names: up to MaxParts fragments one after the other
NameInputs == {Concat(parts) : parts \in SeqsUpTo(NameFragments, MaxParts)}

InitAbbreviate ==
    /\ LineIdle
    /\ stationPositions = <<>>
    /\ arg0 \in NameInputs
    /\ arg = arg0
    /\ ret = <<>>
    /\ called = FALSE

\* abbreviateStationName applied to the name, then to its own result
CallAbbreviate ==
    /\ Len(ret) < MaxApplications
    /\ ret' = Append(ret, abbreviateStationName(IF ret = <<>> THEN arg ELSE ret[Len(ret)]))
    /\ called' = TRUE
    /\ UNCHANGED <<lineVars, stationPositions, arg0, arg>>

NextAbbreviate == CallAbbreviate

SpecAbbreviate == InitAbbreviate /\ [][NextAbbreviate]_vars

----------------------------------------------------------------------------
(* Properties of the component *)

\* C1: a render with zero pairs returns the empty-notice pane and no svg, with the
\* Red wording exactly for the line named "Red" and the generic wording with the
\* line's name otherwise; a render with at least one pair returns the svg scene and
\* no notice.
C1_NoticeOrScene ==
    mounted =>
        /\ ~needsRender => Len(trainRoutePairs) = Len(pairsProp)
        /\ IF Len(trainRoutePairs) = 0
           THEN /\ out.kind = "empty"
                /\ out.stations = <<>>
                /\ out.trains = <<>>
                /\ lineName = "Red" =>
                       out.text = <<"New Red Line trains are expected later in 2020.">>
                /\ lineName # "Red" =>
                       out.text = <<"No new trains on the ", lineName, " Line right now.">>
           ELSE /\ out.kind = "svg"
                /\ out.text = <<>>

C1_Witness ==
    /\ mounted
    /\ ~needsRender
    /\ pairsProp = <<>>
    /\ lineName = "Red"
    /\ out.kind = "empty"
    /\ prevKind = "svg"

\* C2: the first render that shows trains after the line had none (the first render
\* of a mount included) gives focusOnMount = TRUE to a train marker.
C2_FirstTrainFocused ==
    (out.kind = "svg" /\ prevKind # "svg") =>
        \E i \in 1..Len(out.trains) : out.trains[i].focusOnMount

C2_Witness ==
    /\ out.kind = "svg"
    /\ prevKind = "empty"
    /\ mountKind = "svg"
    /\ out.trains[1].focusOnMount

\* C3 as stated: in every render the flag is true iff the render has zero pairs.
C3_FlagIffNoTrains ==
    mounted => (out.shouldFocusOnFirstTrain <=> Len(trainRoutePairs) = 0)

\* C3 amended: the flag is state that follows the presence of trains one render
\* late.  Once the effect of a render has run it is true iff that render had zero
\* pairs; the value a render reads is true iff the render is the first of its mount
\* or the render before it had zero pairs.
C3_FlagFollowsPreviousRender ==
    /\ mounted => (out.shouldFocusOnFirstTrain <=> prevKind # "svg")
    /\ (mounted /\ ~effectPending /\ ~layoutPending) =>
           (shouldFocusOnFirstTrain <=> Len(trainRoutePairs) = 0)

C3_Witness ==
    /\ out.kind = "empty"
    /\ prevKind = "svg"
    /\ ~out.shouldFocusOnFirstTrain
    /\ ~effectPending
    /\ shouldFocusOnFirstTrain

\* C4: a render that shows trains returns exactly one marker per pair, in ascending
\* distance order, and marker i has focusOnMount iff the flag is true and i is the
\* first of the sorted order; so at most one marker has it, none when the flag is
\* false.
C4_OneMarkerPerPair ==
    out.kind = "svg" =>
        /\ Len(out.trains) = Len(trainRoutePairs)
        /\ \A i \in 1..Len(out.trains) :
              /\ out.trains[i].train = trainRoutePairs[i].train
              /\ out.trains[i].route = trainRoutePairs[i].route
              /\ out.trains[i].focusOnMount <=> (out.shouldFocusOnFirstTrain /\ i = 1)
        /\ \A i, j \in 1..Len(out.trains) :
              i < j => PairDistance(trainRoutePairs[i], stationPositions)
                           <= PairDistance(trainRoutePairs[j], stationPositions)
        /\ ~needsRender =>
              /\ Len(out.trains) = Len(pairsProp)
              /\ Range(trainRoutePairs) = Range(pairsProp)
        /\ Cardinality({i \in 1..Len(out.trains) : out.trains[i].focusOnMount}) <= 1
        /\ ~out.shouldFocusOnFirstTrain =>
              \A i \in 1..Len(out.trains) : ~out.trains[i].focusOnMount

C4_Witness ==
    /\ out.kind = "svg"
    /\ ~needsRender
    /\ Len(out.trains) = 2
    /\ pairsProp # trainRoutePairs
    /\ out.trains[1].focusOnMount
    /\ ~out.trains[2].focusOnMount

\* C5: within one mount, once lineOffset is not null no step changes it.
C5_OffsetSetOnce ==
    [][(lineOffset # Null /\ mounted') => lineOffset' = lineOffset]_vars

C5_Witness ==
    /\ lineOffset = Some(0)
    /\ out.kind = "svg"
    /\ prevKind = "empty"
    /\ out.containerStyles # {}
    /\ ~effectPending

\* C10: a mount whose first render had zero trains never measures the offset:
\* lineOffset stays null and the container has no transform, also once trains are
\* shown and the station markers (and the ref) exist.
C10_NoOffsetAfterEmptyMount ==
    mountKind = "empty" =>
        /\ lineOffset = Null
        /\ out.containerStyles = {}

C10_Witness ==
    /\ mountKind = "empty"
    /\ out.kind = "svg"
    /\ firstStationRef # Null
    /\ \E i \in 1..Len(out.stations) : out.stations[i].ref
    /\ ~needsRender
    /\ ~effectPending
    /\ lineOffset = Null

----------------------------------------------------------------------------
(* Properties of the helpers *)

\* C6 as stated: after the call the caller's array holds its elements in their
\* original order.
C6_InputUnchanged ==
    called => arg = arg0

\* position of e in the sequence s of distinct elements
IndexIn(s, e) == CHOOSE i \in 1..Len(s) : s[i] = e

\* squared distance of a pair's station, 0 when the mapping lacks the station
SquaredDistance(pair, positions) ==
    IF \E i \in 1..Len(positions) : positions[i].id = pair.train.stationId
    THEN LET p == positions[CHOOSE i \in 1..Len(positions) :
                                positions[i].id = pair.train.stationId].pos
         IN  p.x * p.x + p.y * p.y
    ELSE 0

\* C7: the result is a permutation of the input, ascending by distance (0 for a
\* station the mapping lacks), and pairs at the same distance keep the order they
\* had in the input.
C7_StableAscendingPermutation ==
    called =>
        /\ Len(ret) = Len(arg0)
        /\ Range(ret) = Range(arg0)
        /\ \A i, j \in 1..Len(ret) :
              i < j =>
                  /\ SquaredDistance(ret[i], stationPositions)
                         <= SquaredDistance(ret[j], stationPositions)
                  /\ SquaredDistance(ret[i], stationPositions)
                         = SquaredDistance(ret[j], stationPositions)
                     => IndexIn(arg0, ret[i]) < IndexIn(arg0, ret[j])

C7_Witness ==
    /\ called
    /\ Len(ret) = 3
    /\ ret # arg0
    /\ ret[1].train.stationId = UnknownStation
    /\ SquaredDistance(ret[2], stationPositions) = SquaredDistance(ret[3], stationPositions)
    /\ ret[2].train.stationId # ret[3].train.stationId
    /\ ret[2].train.label > ret[3].train.label

HasEntry(name) ==
    \/ Contains(name, BostonCollege)
    \/ Contains(name, HynesConventionCenter)
    \/ Contains(name, HeathStreet)

\* C8 as stated: abbreviate(abbreviate(x)) = abbreviate(x) for every name, and a
\* name with none of the three entries is returned unchanged.
C8_Idempotent ==
    /\ Len(ret) >= 2 => ret[2] = ret[1]
    /\ (Len(ret) >= 1 /\ ~HasEntry(arg0)) => ret[1] = arg0

\* C8 amended: a name with none of the three entries is returned unchanged, and
\* abbreviate(abbreviate(x)) = abbreviate(x) exactly when abbreviate(x) holds none
\* of the three entries (only the first occurrence of each entry is replaced, and
\* "Hynes" and "Heath" begin the entries they replace).
C8_IdempotentIffNoEntryLeft ==
    /\ (Len(ret) >= 1 /\ ~HasEntry(arg0)) => ret[1] = arg0
    /\ \A k \in 2..Len(ret) : (ret[k] = ret[k - 1]) <=> ~HasEntry(ret[k - 1])

C8_Witness ==
    /\ Len(ret) = 2
    /\ HasEntry(ret[1])
    /\ ~Contains(arg0, BostonCollege)
    /\ ret[2] # ret[1]
    /\ ret[2] = Hynes

\* C9: null for an empty mapping; otherwise the id of the first entry, in iteration
\* order, whose distance from the origin is minimal; the only entry's id for a
\* mapping of one entry.
C9_FirstMinimalEntry ==
    called =>
        LET sq(i) == arg0[i].pos.x * arg0[i].pos.x + arg0[i].pos.y * arg0[i].pos.y
        IN  /\ Len(arg0) = 0 => ret = Null
            /\ Len(arg0) = 1 => ret = Some(arg0[1].id)
            /\ Len(arg0) > 0 =>
                  \E i \in 1..Len(arg0) :
                      /\ ret = Some(arg0[i].id)
                      /\ \A j \in 1..Len(arg0) : sq(i) <= sq(j)
                      /\ \A j \in 1..(i - 1) : sq(i) < sq(j)

C9_Witness ==
    /\ called
    /\ Len(arg0) = 3
    /\ ret = Some(arg0[2].id)
    /\ arg0[2].pos # arg0[3].pos
    /\ arg0[2].pos.x * arg0[2].pos.x + arg0[2].pos.y * arg0[2].pos.y
           = arg0[3].pos.x * arg0[3].pos.x + arg0[3].pos.y * arg0[3].pos.y

====
